---- MODULE Spec2Model ----
(***************************************************************************)
(* Retro video store: the rental lifecycle (check-out / check-in) and the  *)
(* inventory bookkeeping of app/routes.py over the Customer, Video and     *)
(* Rental tables.                                                          *)
(*                                                                         *)
(* The committed database is <<customers, videos, rentals>>.  Spec runs    *)
(* the handlers one request at a time (one handler = one action, one       *)
(* commit).  SpecConc runs two check-out requests in separate database     *)
(* sessions, interleaved at their queries and their commit.                *)
(***************************************************************************)
EXTENDS Integers, Sequences, FiniteSets

VARIABLES customers, videos, rentals, now, req, resp, pc, session

db == <<customers, videos, rentals>>
vars == <<customers, videos, rentals, now, req, resp, pc, session>>

(* ------------------------------ bounds -------------------------------- *)
\* largest total_inventory a video is created with
MaxInventory == 2
\* rental rows the table holds at most
MaxRentals == 2
\* last reading of the clock
MaxTime == 1

(* --------------------------- program constants ------------------------ *)
\* datetime.timedelta(days=7)
RentalDays == 7
\* returned_on_date of a rental that has not been returned (SQL NULL / None)
Null == -1

\* the ids a request may name: the customer and the video it is about and one
\* other of each; an id names no row until the row has been created
CustomerIds == {1, 2}
VideoIds == {1, 2}
\* the two request threads of the concurrent specification
Workers == {1, 2}

(* ------------------------------ responses ----------------------------- *)
\* status, the message of the "errors" list, and the JSON list of a listing
Response(status, msg) == [status |-> status, msg |-> msg, body |-> <<>>]
NoResponse == Response(0, "")
Ok == Response(200, "")
Created == Response(201, "")
\* an exception no handler catches: Flask answers 500
ServerError == Response(500, "Internal Server Error")
VideoNotFound == Response(404, "Video does not exist")
CustomerNotFound == Response(404, "Customer does not exist")
NoInventoryError == Response(400, "No available inventory for that title")
NoMatchingRecord == Response(400, "No matching record")
AlreadyCheckedInError == Response(400, "Rental has already been checked in")
InvalidCustomerData == Response(400, "Invalid data")
InvalidVideoData == Response(400, "Missing or invalid data")

\* a request: the handler, the ids of its route or body, and its JSON body or
\* query parameters (a record holding the keys that were sent)
NoBody == <<>>
RequestWith(op, c, v, body) ==
    [op |-> op, customer_id |-> c, video_id |-> v, body |-> body]
Request(op, c, v) == RequestWith(op, c, v, NoBody)

\* the keys the handlers read from the JSON body of a customer / of a video
CustomerFields == {"name", "postal_code", "phone"}
VideoFields == {"title", "release_date", "genre", "total_inventory"}

\* request bodies the specifications draw from
PlainCustomerBody == [name |-> 0, postal_code |-> 0, phone |-> 0]
PlainVideoBody(n) == [title |-> 0, release_date |-> 0, genre |-> 0, total_inventory |-> n]
NewCustomerBodies == {PlainCustomerBody, [name |-> 0, phone |-> 0]}
NewVideoBodies ==
    {PlainVideoBody(n) : n \in 0 .. MaxInventory}
      \cup {[title |-> 0, release_date |-> 0, total_inventory |-> n] : n \in 0 .. MaxInventory}

(* ------------------------------- rows --------------------------------- *)
\* Customer row: the maintained checkout counter starts at 0
DefaultCheckedOutCount == 0

\* Customer(name=..., postal_code=..., phone=..., registered_at=now)
NewCustomer(body) ==
    [name |-> body.name, postal_code |-> body.postal_code, phone |-> body.phone,
     videos_checked_out_count |-> DefaultCheckedOutCount]

\* Video row: available_inventory defaults to total_inventory
default_available_inventory_Zero(total_inventory) == 0
default_available_inventory(total_inventory) == total_inventory

\* Video(title=..., release_date=..., genre=..., total_inventory=...)
NewVideo(body) ==
    [title |-> body.title, release_date |-> body.release_date, genre |-> body.genre,
     total_inventory |-> body.total_inventory,
     available_inventory |-> default_available_inventory(body.total_inventory)]

\* Rental(customer_id=..., video_id=..., due_date=now + 7 days); rental_id is
\* the surrogate key the table generates, returned_on_date starts NULL
NewRental(rental_id, c, v, t) ==
    [rental_id |-> rental_id, customer_id |-> c, video_id |-> v,
     due_date |-> t + RentalDays, returned_on_date |-> Null]

NextRentalId(rs) == Len(rs) + 1

IsOpen(r) == r.returned_on_date = Null

\* indexes of the rental rows of the pair (customer c, video v)
PairRentals(rs, c, v) ==
    {i \in 1 .. Len(rs) : rs[i].customer_id = c /\ rs[i].video_id = v}

OpenRentals(rs, c, v) == {i \in PairRentals(rs, c, v) : IsOpen(rs[i])}

(* --------------------------- check-out pieces ------------------------- *)
\* if video.available_inventory == 0
NoInventory_Negative(video) == video.available_inventory < 0
NoInventory(video) == video.available_inventory = 0

\* video.available_inventory = video.available_inventory - 1
CheckOutVideo_NoDecrement(video) == video
CheckOutVideo(video) ==
    [video EXCEPT !.available_inventory = video.available_inventory - 1]

\* customer.videos_checked_out_count = customer.videos_checked_out_count + 1
CheckOutCustomer(customer) ==
    [customer EXCEPT !.videos_checked_out_count = customer.videos_checked_out_count + 1]

(* --------------------------- check-in pieces -------------------------- *)
\* Rental.query.get({"video_id": ..., "customer_id": ...}): the rows the
\* lookup can return.  The pair does not identify one row once the pair has
\* been rented twice, so any row of the pair may be the one returned.
RentalLookup_AnyVideo(rs, c, v) == {i \in 1 .. Len(rs) : rs[i].customer_id = c}
RentalLookup(rs, c, v) == PairRentals(rs, c, v)

\* if rental.returned_on_date
AlreadyCheckedIn_Never(rental) == FALSE
AlreadyCheckedIn(rental) == rental.returned_on_date # Null

\* video.available_inventory = video.available_inventory + 1
CheckInVideo(video) ==
    [video EXCEPT !.available_inventory = video.available_inventory + 1]

\* customer.videos_checked_out_count = customer.videos_checked_out_count - 1
CheckInCustomer_NoDecrement(customer) == customer
CheckInCustomer(customer) ==
    [customer EXCEPT !.videos_checked_out_count = customer.videos_checked_out_count - 1]

\* rental.returned_on_date = datetime.datetime.now()
ReturnRental_Delete(rs, i, t) ==
    [j \in 1 .. (Len(rs) - 1) |-> IF j < i THEN rs[j] ELSE rs[j + 1]]
ReturnRental(rs, i, t) == [rs EXCEPT ![i].returned_on_date = t]

(* ------------------------------- state -------------------------------- *)
IdleSession ==
    [customer_id |-> 0, video_id |-> 0,
     video |-> NewVideo(PlainVideoBody(0)), customer |-> NewCustomer(PlainCustomerBody),
     resp |-> NoResponse]

Init ==
    /\ customers = <<>>
    /\ videos = <<>>
    /\ rentals = <<>>
    /\ now = 0
    /\ req = Request("none", 0, 0)
    /\ resp = NoResponse
    /\ pc = [w \in Workers |-> "idle"]
    /\ session = [w \in Workers |-> IdleSession]

\* datetime.datetime.now(): the time at which the request is handled
Clock == now' \in {now} \cup {t \in {now + 1} : t <= MaxTime}

\* a 200 response with a JSON body
ListResponse(items) == [status |-> 200, msg |-> "", body |-> items]

\* Rental.get_rental_info: the rental with the counters of its customer and
\* video rows as the session holds them
get_rental_info(rental, customer, video) ==
    [customer_id |-> rental.customer_id,
     video_id |-> rental.video_id,
     due_date |-> rental.due_date,
     videos_checked_out_count |-> customer.videos_checked_out_count,
     available_inventory |-> video.available_inventory]

\* del response["due_date"]
del_due_date(response) ==
    [k \in DOMAIN response \ {"due_date"} |-> response[k]]

(* --------------------- handlers, one request at a time ---------------- *)
\* POST /customers
PostNewCustomer(body) ==
    /\ Len(customers) < Cardinality(CustomerIds)
    /\ Clock
    /\ req' = RequestWith("post_customer", 0, 0, body)
    /\ IF CustomerFields \subseteq DOMAIN body
       THEN /\ customers' = Append(customers, NewCustomer(body))
            /\ resp' = Created
       ELSE /\ customers' = customers
            /\ resp' = InvalidCustomerData
    /\ UNCHANGED <<videos, rentals, pc, session>>

\* POST /videos
PostNewVideo(body) ==
    /\ Len(videos) < Cardinality(VideoIds)
    /\ Clock
    /\ req' = RequestWith("post_video", 0, 0, body)
    /\ IF VideoFields \subseteq DOMAIN body
       THEN /\ videos' = Append(videos, NewVideo(body))
            /\ resp' = Created
       ELSE /\ videos' = videos
            /\ resp' = InvalidVideoData
    /\ UNCHANGED <<customers, rentals, pc, session>>

\* POST /rentals/check-out
CheckOut(c, v) ==
    /\ Clock
    /\ req' = Request("check_out", c, v)
    /\ IF v \notin DOMAIN videos
       THEN \* "if video is None: make_response(...)" returns nothing, and
            \* video.available_inventory then raises on None
            /\ resp' = ServerError
            /\ UNCHANGED db
       ELSE IF NoInventory(videos[v])
       THEN /\ resp' = NoInventoryError
            /\ UNCHANGED db
       ELSE IF c \notin DOMAIN customers
       THEN /\ resp' = CustomerNotFound
            /\ UNCHANGED db
       ELSE /\ Len(rentals) < MaxRentals
            /\ videos' = [videos EXCEPT ![v] = CheckOutVideo(videos[v])]
            /\ customers' = [customers EXCEPT ![c] = CheckOutCustomer(customers[c])]
            /\ rentals' = Append(rentals, NewRental(NextRentalId(rentals), c, v, now'))
            /\ resp' = ListResponse(<<get_rental_info(rentals'[Len(rentals')],
                                                      customers'[c], videos'[v])>>)
    /\ UNCHANGED <<pc, session>>

\* POST /rentals/check-in
CheckIn(c, v) ==
    /\ Clock
    /\ req' = Request("check_in", c, v)
    /\ IF c \notin DOMAIN customers
       THEN /\ resp' = CustomerNotFound
            /\ UNCHANGED db
       ELSE IF v \notin DOMAIN videos
       THEN /\ resp' = VideoNotFound
            /\ UNCHANGED db
       ELSE IF RentalLookup(rentals, c, v) = {}
       THEN /\ resp' = NoMatchingRecord
            /\ UNCHANGED db
       ELSE \E i \in RentalLookup(rentals, c, v) :
              IF AlreadyCheckedIn(rentals[i])
              THEN /\ resp' = AlreadyCheckedInError
                   /\ UNCHANGED db
              ELSE /\ videos' = [videos EXCEPT ![v] = CheckInVideo(videos[v])]
                   /\ customers' = [customers EXCEPT ![c] = CheckInCustomer(customers[c])]
                   /\ rentals' = ReturnRental(rentals, i, now')
                   /\ resp' = ListResponse(<<del_due_date(
                                   get_rental_info(rentals[i], customers'[c], videos'[v]))>>)
    /\ UNCHANGED <<pc, session>>

Next ==
    \/ \E body \in NewCustomerBodies : PostNewCustomer(body)
    \/ \E body \in NewVideoBodies : PostNewVideo(body)
    \/ \E c \in CustomerIds, v \in VideoIds : CheckOut(c, v)
    \/ \E c \in CustomerIds, v \in VideoIds : CheckIn(c, v)

Spec == Init /\ [][Next]_vars

(* ------------- two check-out requests in concurrent sessions ---------- *)
\* Each request thread has its own database session.  A query reads the
\* committed rows into the session; the objects stay as read until the
\* session commits, and no row is locked in between.

\* request_body = request.get_json()
BeginCheckOut(w, c, v) ==
    /\ pc[w] \in {"idle", "done"}
    /\ pc' = [pc EXCEPT ![w] = "query_video"]
    /\ session' = [session EXCEPT ![w] =
                     [IdleSession EXCEPT !.customer_id = c, !.video_id = v]]
    /\ UNCHANGED <<customers, videos, rentals, now, req, resp>>

\* video = Video.query.get(...), then the inventory test on the object read
QueryVideo(w) ==
    /\ pc[w] = "query_video"
    /\ LET v == session[w].video_id IN
       IF v \notin DOMAIN videos
       THEN /\ session' = [session EXCEPT ![w].resp = ServerError]
            /\ pc' = [pc EXCEPT ![w] = "done"]
       ELSE IF NoInventory(videos[v])
       THEN /\ session' = [session EXCEPT ![w].video = videos[v],
                                          ![w].resp = NoInventoryError]
            /\ pc' = [pc EXCEPT ![w] = "done"]
       ELSE /\ session' = [session EXCEPT ![w].video = videos[v]]
            /\ pc' = [pc EXCEPT ![w] = "query_customer"]
    /\ UNCHANGED <<customers, videos, rentals, now, req, resp>>

\* customer = Customer.query.get(...)
QueryCustomer(w) ==
    /\ pc[w] = "query_customer"
    /\ LET c == session[w].customer_id IN
       IF c \notin DOMAIN customers
       THEN /\ session' = [session EXCEPT ![w].resp = CustomerNotFound]
            /\ pc' = [pc EXCEPT ![w] = "done"]
       ELSE /\ session' = [session EXCEPT ![w].customer = customers[c]]
            /\ pc' = [pc EXCEPT ![w] = "commit"]
    /\ UNCHANGED <<customers, videos, rentals, now, req, resp>>

\* the new Rental, the two counters computed from the objects the session
\* holds, db.session.add and db.session.commit: one transaction
CommitCheckOut(w) ==
    /\ pc[w] = "commit"
    /\ Len(rentals) < MaxRentals
    /\ Clock
    /\ LET c == session[w].customer_id
           v == session[w].video_id IN
       /\ videos' = [videos EXCEPT ![v].available_inventory =
                       CheckOutVideo(session[w].video).available_inventory]
       /\ customers' = [customers EXCEPT ![c].videos_checked_out_count =
                          CheckOutCustomer(session[w].customer).videos_checked_out_count]
       /\ rentals' = Append(rentals, NewRental(NextRentalId(rentals), c, v, now'))
    /\ session' = [session EXCEPT ![w].resp = Ok]
    /\ pc' = [pc EXCEPT ![w] = "done"]
    /\ UNCHANGED <<req, resp>>

NextConc ==
    \/ \E body \in NewCustomerBodies : PostNewCustomer(body)
    \/ \E body \in NewVideoBodies : PostNewVideo(body)
    \/ \E w \in Workers, c \in CustomerIds, v \in VideoIds : BeginCheckOut(w, c, v)
    \/ \E w \in Workers : QueryVideo(w)
    \/ \E w \in Workers : QueryCustomer(w)
    \/ \E w \in Workers : CommitCheckOut(w)

SpecConc == Init /\ [][NextConc]_vars

(* ============================== claims ================================ *)
\* The step just taken handled the request req' and answered resp'.
IsStep(op) == req'.op = op

OpenOfVideo(v) == {i \in 1 .. Len(rentals) : rentals[i].video_id = v /\ IsOpen(rentals[i])}
OpenOfCustomer(c) == {i \in 1 .. Len(rentals) : rentals[i].customer_id = c /\ IsOpen(rentals[i])}
ClosedRentals == {i \in 1 .. Len(rentals) : ~IsOpen(rentals[i])}

\* C1: after any sequence of check-outs and check-ins, every video has
\* 0 <= available_inventory <= total_inventory.
C1_InventoryInRange ==
    \A v \in DOMAIN videos :
        /\ 0 <= videos[v].available_inventory
        /\ videos[v].available_inventory <= videos[v].total_inventory

\* C1 witness: a video that was checked out to its last copy, with a return
\* already in the table.
C1_Witness ==
    /\ ClosedRentals # {}
    /\ \E v \in DOMAIN videos :
          videos[v].total_inventory > 0 /\ videos[v].available_inventory = 0

\* C2: two concurrent check-outs that both read available_inventory = 1 of
\* the same video never both succeed.
C2_OneCheckOutWins ==
    \A w1 \in Workers, w2 \in Workers :
        (/\ w1 # w2
         /\ pc[w1] = "done" /\ pc[w2] = "done"
         /\ session[w1].video_id = session[w2].video_id
         /\ session[w1].video.available_inventory = 1
         /\ session[w2].video.available_inventory = 1
         /\ session[w1].resp = Ok)
        => session[w2].resp # Ok

\* C3: a check-out of an existing video with available_inventory = 0 is
\* answered 400 "No available inventory for that title", whoever the
\* customer is, and changes no row.
C3_NoInventoryFails ==
    [][(/\ IsStep("check_out")
        /\ req'.video_id \in DOMAIN videos
        /\ videos[req'.video_id].available_inventory = 0)
       => (resp' = NoInventoryError /\ UNCHANGED db)]_vars

\* C3 witness: the no-inventory answer given to a customer that does not exist.
C3_Witness ==
    /\ req.op = "check_out"
    /\ resp = NoInventoryError
    /\ req.customer_id \notin DOMAIN customers

\* C4: a successful check-out adds exactly one open rental of the pair, due
\* 7 days from now, lowers that video's available_inventory by 1 and raises
\* that customer's videos_checked_out_count by 1, all in the one step, and
\* touches no other row.
C4_CheckOutAtomic ==
    [][(IsStep("check_out") /\ resp'.status = 200)
       => LET c == req'.customer_id
              v == req'.video_id IN
          /\ c \in DOMAIN customers /\ v \in DOMAIN videos
          /\ Len(rentals') = Len(rentals) + 1
          /\ SubSeq(rentals', 1, Len(rentals)) = rentals
          /\ rentals'[Len(rentals')].customer_id = c
          /\ rentals'[Len(rentals')].video_id = v
          /\ rentals'[Len(rentals')].due_date = now' + 7
          /\ IsOpen(rentals'[Len(rentals')])
          /\ videos' = [videos EXCEPT ![v].available_inventory = @ - 1]
          /\ customers' = [customers EXCEPT ![c].videos_checked_out_count = @ + 1]]_vars

\* C4 witness: a check-out has succeeded while another customer and another
\* video are in the store.
C4_Witness ==
    /\ req.op = "check_out" /\ resp.status = 200
    /\ Len(customers) = 2 /\ Len(videos) = 2

\* C5: a check-in that directly follows a successful check-out of the same
\* pair succeeds and puts both counters back.
C5_CheckOutCheckInRestores ==
    [][(/\ req.op = "check_out" /\ resp.status = 200
        /\ IsStep("check_in")
        /\ req'.customer_id = req.customer_id
        /\ req'.video_id = req.video_id)
       => (/\ resp'.status = 200
           /\ videos'[req.video_id].available_inventory
                = videos[req.video_id].available_inventory + 1
           /\ customers'[req.customer_id].videos_checked_out_count
                = customers[req.customer_id].videos_checked_out_count - 1)]_vars

\* C6: a check-out naming a video that does not exist is answered
\* 404 "Video does not exist" and changes no row.
C6_MissingVideoNotFound ==
    [][(IsStep("check_out") /\ req'.video_id \notin DOMAIN videos)
       => (resp' = VideoNotFound /\ UNCHANGED db)]_vars

\* C7: a check-in of an existing customer and video with no open rental
\* between them changes no row and is answered "No matching record" when the
\* pair has no rental and "already checked in" when it has only closed ones.
C7_CheckInWithoutOpenRentalFails ==
    [][(/\ IsStep("check_in")
        /\ req'.customer_id \in DOMAIN customers
        /\ req'.video_id \in DOMAIN videos
        /\ OpenRentals(rentals, req'.customer_id, req'.video_id) = {})
       => (/\ UNCHANGED db
           /\ resp' = IF PairRentals(rentals, req'.customer_id, req'.video_id) = {}
                      THEN NoMatchingRecord
                      ELSE AlreadyCheckedInError)]_vars

\* C7 witness: a second check-in of a returned rental was rejected.
C7_Witness ==
    /\ req.op = "check_in"
    /\ resp = AlreadyCheckedInError
    /\ OpenRentals(rentals, req.customer_id, req.video_id) = {}

\* C8: once a pair has a closed rental and a new open one, a check-in of the
\* pair closes the open one and leaves the closed one as it was.
C8_CheckInClosesNewRental ==
    [][(/\ IsStep("check_in")
        /\ req'.customer_id \in DOMAIN customers
        /\ req'.video_id \in DOMAIN videos
        /\ OpenRentals(rentals, req'.customer_id, req'.video_id) # {}
        /\ PairRentals(rentals, req'.customer_id, req'.video_id)
             # OpenRentals(rentals, req'.customer_id, req'.video_id))
       => (/\ resp'.status = 200
           /\ \E i \in OpenRentals(rentals, req'.customer_id, req'.video_id) :
                 rentals' = [rentals EXCEPT ![i].returned_on_date = now'])]_vars

\* C9: the counters agree with the rental rows: available_inventory is
\* total_inventory minus the video's open rentals, videos_checked_out_count
\* is the number of the customer's open rentals.
C9_CountersMatchRentals ==
    /\ \A v \in DOMAIN videos :
          videos[v].available_inventory
            = videos[v].total_inventory - Cardinality(OpenOfVideo(v))
    /\ \A c \in DOMAIN customers :
          customers[c].videos_checked_out_count = Cardinality(OpenOfCustomer(c))

\* C9 witness: an open and a closed rental are in the table.
C9_Witness ==
    /\ ClosedRentals # {}
    /\ \E i \in 1 .. Len(rentals) : IsOpen(rentals[i])

C11_Scenario(keys) ==
    /\ (IsStep("post_video") /\ DOMAIN req'.body = keys)
       => /\ resp'.status = 201
          /\ Len(videos') = Len(videos) + 1
          /\ SubSeq(videos', 1, Len(videos)) = videos
          /\ videos'[Len(videos')].total_inventory = req'.body.total_inventory
          /\ videos'[Len(videos')].available_inventory = req'.body.total_inventory
    /\ (/\ IsStep("check_out")
        /\ req'.customer_id \in DOMAIN customers
        /\ req'.video_id \in DOMAIN videos)
       => LET v == req'.video_id IN
          IF Cardinality(OpenOfVideo(v)) < videos[v].total_inventory
          THEN /\ resp'.status = 200
               /\ videos'[v].available_inventory = videos[v].available_inventory - 1
          ELSE /\ resp' = NoInventoryError
               /\ videos[v].available_inventory = 0
               /\ videos'[v].available_inventory = 0

\* C11 as stated: the creation body is {title, release_date, total_inventory}.
C11_CreateWithoutGenre ==
    [][C11_Scenario({"title", "release_date", "total_inventory"})]_vars

\* C11 amended: the creation body is {title, release_date, genre,
\* total_inventory}.
C11_CreateThenCheckOutN ==
    [][C11_Scenario({"title", "release_date", "genre", "total_inventory"})]_vars

\* C11 witness: a video created with total_inventory = 2 has been checked out
\* to two different customers and a third check-out was refused.
C11_Witness ==
    /\ req.op = "check_out"
    /\ resp = NoInventoryError
    /\ req.video_id \in DOMAIN videos
    /\ videos[req.video_id].total_inventory = 2
    /\ videos[req.video_id].available_inventory = 0
    /\ \E i \in OpenOfVideo(req.video_id), j \in OpenOfVideo(req.video_id) :
          rentals[i].customer_id # rentals[j].customer_id

(* ===================== query / pagination engine ====================== *)
\* largest table the listing specification starts from
MaxRows == 4

Min(a, b) == IF a <= b THEN a ELSE b

\* the query parameters sort, n, p that were sent (request.args.get gives
\* None for the others); a parameter that is sent is a non-empty string, so
\* it is truthy whatever number it spells
QueryArgs(S, N, P) ==
    {NoBody} \cup [sort : S] \cup [n : N] \cup [p : P]
      \cup [sort : S, n : N] \cup [sort : S, p : P] \cup [n : N, p : P]
      \cup [sort : S, n : N, p : P]

Sent(args, k) == k \in DOMAIN args

\* sort_query = request.args.get("sort"), "" when it was not sent
SortQuery(args) == IF Sent(args, "sort") THEN args.sort ELSE ""

\* the rows of a table in the orders a SELECT may return them
IndexPerms(n) == {f \in [1 .. n -> 1 .. n] : \A i, j \in 1 .. n : i # j => f[i] # f[j]}
Arrange(rows, f) == [i \in 1 .. Len(rows) |-> rows[f[i]]]

\* no ORDER BY: the store returns the rows in an order of its choosing
Unordered(rows) == {Arrange(rows, f) : f \in IndexPerms(Len(rows))}

\* query.order_by(order_by): ascending by the column; ORDER BY says nothing
\* about the order of rows whose keys are equal
OrderBy(rows, order_by) ==
    {o \in Unordered(rows) : \A i \in 1 .. (Len(o) - 1) : o[i][order_by] <= o[i + 1][order_by]}

\* query.limit(results_per_page) and query.offset(page * int(results_per_page))
LimitOffset(o, limit, offset) == SubSeq(o, offset + 1, Min(Len(o), offset + limit))

\* page = int(page) - 1; offset page * int(results_per_page)
PageOffset(page, results_per_page) == (page - 1) * results_per_page

QueryFailure == [error |-> TRUE, rows |-> <<>>]
QueryRows(rows) == [error |-> FALSE, rows |-> rows]

\* query_with_parameters(model_name, order_by, page, results_per_page) over
\* the rows of the model's table: the results the request can get.
\*  - "if page:" with results_per_page None: int(None) raises TypeError
\*  - an order_by that names no column: the query fails when it is run
query_with_parameters(rows, columns, order_by, args) ==
    IF Sent(args, "p") /\ ~Sent(args, "n")
    THEN {QueryFailure}
    ELSE IF order_by # "" /\ order_by \notin columns
    THEN {QueryFailure}
    ELSE LET ordered == IF order_by # "" THEN OrderBy(rows, order_by) ELSE Unordered(rows)
             offset == IF Sent(args, "p") THEN PageOffset(args.p, args.n) ELSE 0
         IN  {QueryRows(IF Sent(args, "n") THEN LimitOffset(o, args.n, offset) ELSE o) :
                o \in ordered}

\* get_rentals_within_parameters(rentals_list, order_by, page,
\* results_per_page): the same steps over a query that is already filtered
get_rentals_within_parameters(rentals_list, columns, order_by, args) ==
    IF Sent(args, "p") /\ ~Sent(args, "n")
    THEN {QueryFailure}
    ELSE IF order_by # "" /\ order_by \notin columns
    THEN {QueryFailure}
    ELSE LET ordered == IF order_by # "" THEN OrderBy(rentals_list, order_by)
                                          ELSE Unordered(rentals_list)
             offset == IF Sent(args, "p") THEN PageOffset(args.p, args.n) ELSE 0
         IN  {QueryRows(IF Sent(args, "n") THEN LimitOffset(o, args.n, offset) ELSE o) :
                o \in ordered}

\* the JSON list of a listing

(* ----------------------- GET /videos, GET /customers ------------------ *)
VideoColumns ==
    {"video_id", "title", "release_date", "genre", "total_inventory", "available_inventory"}
CustomerColumns ==
    {"customer_id", "name", "postal_code", "phone", "videos_checked_out_count"}

\* the rows of the video / customer table with their primary keys
VideoTable ==
    [i \in 1 .. Len(videos) |->
        [video_id |-> i, title |-> videos[i].title, release_date |-> videos[i].release_date,
         genre |-> videos[i].genre, total_inventory |-> videos[i].total_inventory,
         available_inventory |-> videos[i].available_inventory]]
CustomerTable ==
    [i \in 1 .. Len(customers) |->
        [customer_id |-> i, name |-> customers[i].name,
         postal_code |-> customers[i].postal_code, phone |-> customers[i].phone,
         videos_checked_out_count |-> customers[i].videos_checked_out_count]]

\* Video.get_video_info
get_video_info(video) ==
    [id |-> video.video_id, title |-> video.title, release_date |-> video.release_date,
     genre |-> video.genre, total_inventory |-> video.total_inventory,
     available_inventory |-> video.available_inventory]

\* Customer.get_customer_info
get_customer_info(customer) ==
    [id |-> customer.customer_id, name |-> customer.name,
     postal_code |-> customer.postal_code, phone |-> customer.phone,
     videos_checked_out_count |-> 0]

\* GET /videos
GetAllVideos(args) ==
    /\ req' = RequestWith("get_videos", 0, 0, args)
    /\ LET sort_query == IF SortQuery(args) = "" THEN "video_id" ELSE SortQuery(args) IN
       \E out \in query_with_parameters(VideoTable, VideoColumns, sort_query, args) :
          resp' = IF out.error
                  THEN ServerError
                  ELSE ListResponse([i \in 1 .. Len(out.rows) |-> get_video_info(out.rows[i])])
    /\ UNCHANGED <<customers, videos, rentals, now, pc, session>>

\* GET /customers
GetAllCustomers(args) ==
    /\ req' = RequestWith("get_customers", 0, 0, args)
    /\ LET sort_query == IF SortQuery(args) = "" THEN "customer_id" ELSE SortQuery(args) IN
       \E out \in query_with_parameters(CustomerTable, CustomerColumns, sort_query, args) :
          resp' = IF out.error
                  THEN ServerError
                  ELSE ListResponse([i \in 1 .. Len(out.rows) |-> get_customer_info(out.rows[i])])
    /\ UNCHANGED <<customers, videos, rentals, now, pc, session>>

\* The listing specification: the tables hold videos and customers created
\* earlier (titles a and b, so that a sort by title has equal keys), and the
\* requests are listings.
TitledVideo(t) == NewVideo([PlainVideoBody(0) EXCEPT !.title = t])
VideoTables ==
    UNION {[1 .. k -> {TitledVideo(0), TitledVideo(1)}] : k \in 0 .. MaxRows}
CustomerTables ==
    UNION {[1 .. k -> {NewCustomer(PlainCustomerBody)}] : k \in 0 .. Cardinality(CustomerIds)}

InitQuery ==
    /\ customers \in CustomerTables
    /\ videos \in VideoTables
    /\ rentals = <<>>
    /\ now = 0
    /\ req = Request("none", 0, 0)
    /\ resp = NoResponse
    /\ pc = [w \in Workers |-> "idle"]
    /\ session = [w \in Workers |-> IdleSession]

VideoQueryArgs == QueryArgs({"video_id", "title", "length"}, {1, 2}, {1, 2, 3})
CustomerQueryArgs == QueryArgs({"customer_id", "name", "address"}, {1, 2}, {1, 2})

NextQuery ==
    \/ \E args \in VideoQueryArgs : GetAllVideos(args)
    \/ \E args \in CustomerQueryArgs : GetAllCustomers(args)

SpecQuery == InitQuery /\ [][NextQuery]_vars

\* the sort field of a video listing, video_id when none is sent, and the
\* value an item of the listing has for it
VideoSortOf(args) == IF "sort" \in DOMAIN args THEN args.sort ELSE "video_id"
VideoItemKey(item, sort) == IF sort = "video_id" THEN item.id ELSE item[sort]

\* C13: with the same sort field and page size n over an unchanged video
\* table, repeating a page returns the same items, and page 1 followed by
\* page 2 gives the first 2n sorted items: in order, none twice, none skipped.
C13_PagesPartitionSorted ==
    [][(/\ req.op = "get_videos" /\ IsStep("get_videos")
        /\ videos' = videos
        /\ {"n", "p"} \subseteq DOMAIN req.body /\ {"n", "p"} \subseteq DOMAIN req'.body
        /\ req'.body.n = req.body.n
        /\ VideoSortOf(req'.body) = VideoSortOf(req.body)
        /\ VideoSortOf(req.body) \in {"video_id", "title"})
       => LET sort == VideoSortOf(req.body)
              both == resp.body \o resp'.body
          IN  /\ resp.status = 200 /\ resp'.status = 200
              /\ req'.body.p = req.body.p => resp'.body = resp.body
              /\ (req.body.p = 1 /\ req'.body.p = 2)
                 => /\ Len(both) = Min(2 * req.body.n, Len(videos))
                    /\ \A i, j \in 1 .. Len(both) : i # j => both[i].id # both[j].id
                    /\ \A i \in 1 .. (Len(both) - 1) :
                          VideoItemKey(both[i], sort) <= VideoItemKey(both[i + 1], sort)]_vars

\* C14: a listing that is sent p but no n succeeds and returns the whole
\* collection, sorted, as the request without p does.
C14_PageWithoutSizeIgnored ==
    [][(/\ IsStep("get_videos")
        /\ "p" \in DOMAIN req'.body /\ "n" \notin DOMAIN req'.body
        /\ VideoSortOf(req'.body) \in {"video_id", "title"})
       => /\ resp'.status = 200
          /\ Len(resp'.body) = Len(videos)
          /\ \A i, j \in 1 .. Len(resp'.body) : i # j => resp'.body[i].id # resp'.body[j].id
          /\ \A i \in 1 .. (Len(resp'.body) - 1) :
                VideoItemKey(resp'.body[i], VideoSortOf(req'.body))
                  <= VideoItemKey(resp'.body[i + 1], VideoSortOf(req'.body))]_vars

\* C15: a customer listing whose sort parameter names no field of a customer
\* is answered with a validation error, HTTP 400.
C15_UnknownSortFieldRejected ==
    [][(/\ IsStep("get_customers")
        /\ "sort" \in DOMAIN req'.body
        /\ req'.body.sort \notin {"customer_id", "name", "postal_code", "phone",
                                  "registered_at", "videos_checked_out_count"})
       => resp'.status = 400]_vars

(* ------------------------- rental listings ---------------------------- *)
RentalColumns == {"rental_id", "due_date", "customer_id", "video_id", "returned_on_date"}

\* .filter(Rental.returned_on_date != None)
IsReturned_Any(rental) == TRUE
IsReturned(rental) == rental.returned_on_date # Null

\* .filter(Rental.due_date < datetime.datetime.now())
\* .filter(Rental.returned_on_date==None)
IsOverdue_Returned(rental, t) == rental.due_date < t
IsOverdue(rental, t) == rental.due_date < t /\ rental.returned_on_date = Null

\* checkout_date = rental.due_date - datetime.timedelta(days=7)
checkout_date(rental) == rental.due_date - RentalDays

\* the rentals of a video / of a customer that are joined to an existing
\* video and customer and have been returned
VideoHistoryRentals(v) ==
    SelectSeq(rentals, LAMBDA r : /\ r.video_id \in DOMAIN videos
                                  /\ r.customer_id \in DOMAIN customers
                                  /\ r.video_id = v
                                  /\ IsReturned(r))
CustomerHistoryRentals(c) ==
    SelectSeq(rentals, LAMBDA r : /\ r.video_id \in DOMAIN videos
                                  /\ r.customer_id \in DOMAIN customers
                                  /\ r.customer_id = c
                                  /\ IsReturned(r))
OverdueRentals(t) == SelectSeq(rentals, LAMBDA r : IsOverdue(r, t))

VideoHistoryEntry(rental) ==
    [customer_id |-> rental.customer_id,
     name |-> customers[rental.customer_id].name,
     postal_code |-> customers[rental.customer_id].postal_code,
     checkout_date |-> checkout_date(rental),
     due_date |-> rental.due_date]
CustomerHistoryEntry(rental) ==
    [title |-> videos[rental.video_id].title,
     checkout_date |-> checkout_date(rental),
     due_date |-> rental.due_date]
OverdueEntry(rental) ==
    [video_id |-> rental.video_id,
     title |-> videos[rental.video_id].title,
     customer_id |-> rental.customer_id,
     name |-> customers[rental.customer_id].name,
     postal_code |-> customers[rental.customer_id].postal_code,
     checkout_date |-> checkout_date(rental),
     due_date |-> rental.due_date]

\* GET /videos/<video_id>/history
GetRentalHistoryForVideo(v, args) ==
    /\ req' = RequestWith("get_video_history", 0, v, args)
    /\ IF v \notin DOMAIN videos
       THEN resp' = VideoNotFound
       ELSE \E out \in get_rentals_within_parameters(
                         VideoHistoryRentals(v), RentalColumns, SortQuery(args), args) :
              resp' = IF out.error
                      THEN ServerError
                      ELSE ListResponse([i \in 1 .. Len(out.rows) |->
                                            VideoHistoryEntry(out.rows[i])])
    /\ UNCHANGED <<customers, videos, rentals, now, pc, session>>

\* GET /customers/<customer_id>/history
GetRentalHistoryForCustomer(c, args) ==
    /\ req' = RequestWith("get_customer_history", c, 0, args)
    /\ IF c \notin DOMAIN customers
       THEN resp' = CustomerNotFound
       ELSE \E out \in get_rentals_within_parameters(
                         CustomerHistoryRentals(c), RentalColumns, SortQuery(args), args) :
              resp' = IF out.error
                      THEN ServerError
                      ELSE ListResponse([i \in 1 .. Len(out.rows) |->
                                            CustomerHistoryEntry(out.rows[i])])
    /\ UNCHANGED <<customers, videos, rentals, now, pc, session>>

\* GET /rentals/overdue
GetOverdueRentals(args) ==
    /\ Clock
    /\ req' = RequestWith("get_overdue", 0, 0, args)
    /\ LET sort_query == IF SortQuery(args) = "" THEN "video_id" ELSE SortQuery(args) IN
       \E out \in get_rentals_within_parameters(
                    OverdueRentals(now'), RentalColumns, sort_query, args) :
          resp' = IF out.error
                  THEN ServerError
                  ELSE ListResponse([i \in 1 .. Len(out.rows) |-> OverdueEntry(out.rows[i])])
    /\ UNCHANGED <<customers, videos, rentals, pc, session>>

\* query parameters of the rental listings
RentalQueryArgs == {NoBody, [sort |-> "due_date"], [n |-> 1]}

NextHistory ==
    \/ Next
    \/ \E v \in VideoIds, args \in RentalQueryArgs : GetRentalHistoryForVideo(v, args)
    \/ \E c \in CustomerIds, args \in RentalQueryArgs : GetRentalHistoryForCustomer(c, args)

SpecHistory == Init /\ [][NextHistory]_vars

\* Days go by between two requests, up to the day on which the first rentals
\* are past their due date.
LastDay == MaxTime + RentalDays
Wait(days) ==
    /\ now + days <= LastDay
    /\ now' = now + days
    /\ req' = Request("wait", 0, 0)
    /\ resp' = NoResponse
    /\ UNCHANGED <<customers, videos, rentals, pc, session>>

\* A store that has registered its customers and stocked its videos
StockedStore ==
    /\ customers = [c \in CustomerIds |-> NewCustomer(PlainCustomerBody)]
    /\ videos \in [VideoIds -> {NewVideo(PlainVideoBody(n)) : n \in 1 .. MaxInventory}]
    /\ rentals = <<>>
    /\ now = 0
    /\ req = Request("none", 0, 0)
    /\ resp = NoResponse
    /\ pc = [w \in Workers |-> "idle"]
    /\ session = [w \in Workers |-> IdleSession]

NextOverdue ==
    \/ \E c \in CustomerIds, v \in VideoIds : CheckOut(c, v)
    \/ \E c \in CustomerIds, v \in VideoIds : CheckIn(c, v)
    \/ Wait(RentalDays)
    \/ \E args \in RentalQueryArgs : GetOverdueRentals(args)

SpecOverdue == StockedStore /\ [][NextOverdue]_vars

(* --------------------- claims about rental listings ------------------- *)
Count(entries, e) == Cardinality({i \in DOMAIN entries : entries[i] = e})
SameEntries(a, b) ==
    /\ Len(a) = Len(b)
    /\ \A i \in DOMAIN a : Count(a, a[i]) = Count(b, a[i])
ClosedOfVideo(v) ==
    SelectSeq(rentals, LAMBDA r : r.video_id = v /\ r.returned_on_date # Null)
ClosedOfCustomer(c) ==
    SelectSeq(rentals, LAMBDA r : r.customer_id = c /\ r.returned_on_date # Null)
Unpaged(args) == "n" \notin DOMAIN args

\* C12: the history of a video (of a customer) has one entry for each rental
\* of that video (customer) whose returned_on_date is set and none for an open
\* rental; each entry's checkout_date is due_date minus 7 days, and that is
\* the time at which the check_out created the rental.
C12_HistoryScenario ==
    /\ (/\ IsStep("get_video_history")
        /\ req'.video_id \in DOMAIN videos
        /\ Unpaged(req'.body))
       => /\ resp'.status = 200
          /\ LET closed == ClosedOfVideo(req'.video_id) IN
             SameEntries(resp'.body,
                         [i \in 1 .. Len(closed) |->
                            [customer_id |-> closed[i].customer_id,
                             name |-> customers[closed[i].customer_id].name,
                             postal_code |-> customers[closed[i].customer_id].postal_code,
                             checkout_date |-> closed[i].due_date - RentalDays,
                             due_date |-> closed[i].due_date]])
    /\ (/\ IsStep("get_customer_history")
        /\ req'.customer_id \in DOMAIN customers
        /\ Unpaged(req'.body))
       => /\ resp'.status = 200
          /\ LET closed == ClosedOfCustomer(req'.customer_id) IN
             SameEntries(resp'.body,
                         [i \in 1 .. Len(closed) |->
                            [title |-> videos[closed[i].video_id].title,
                             checkout_date |-> closed[i].due_date - RentalDays,
                             due_date |-> closed[i].due_date]])
    /\ (IsStep("check_out") /\ resp'.status = 200)
       => /\ Len(rentals') = Len(rentals) + 1
          /\ rentals'[Len(rentals')].due_date - RentalDays = now'
    /\ \A i \in 1 .. Len(rentals) : rentals'[i].due_date = rentals[i].due_date
C12_HistoryListsCompletedRentals == [][C12_HistoryScenario]_vars

\* a video's history with exactly one entry, for its one completed cycle, while
\* another rental of the same video is still open
C12_Witness ==
    /\ req.op = "get_video_history"
    /\ resp.status = 200
    /\ Len(resp.body) = 1
    /\ resp.body[1].checkout_date = resp.body[1].due_date - RentalDays
    /\ Len(ClosedOfVideo(req.video_id)) = 1
    /\ OpenOfVideo(req.video_id) # {}

(* ------------------ PUT /customers/<id>, PUT /videos/<id> ------------- *)
InvalidOrMissingData == Response(400, "Invalid or missing data")

\* Customer.from_json: request_body['name'], ['postal_code'], ['phone']
Customer_from_json_KeepPhone(self, request_body) ==
    [self EXCEPT !.name = request_body.name,
                 !.postal_code = request_body.postal_code]
Customer_from_json(self, request_body) ==
    [self EXCEPT !.name = request_body.name,
                 !.postal_code = request_body.postal_code,
                 !.phone = request_body.phone]

\* Video.from_json: request_body['title'], ['release_date'],
\* ['total_inventory'], ['genre']
Video_from_json_Reconcile(self, request_body) ==
    [self EXCEPT !.title = request_body.title,
                 !.release_date = request_body.release_date,
                 !.total_inventory = request_body.total_inventory,
                 !.genre = request_body.genre,
                 !.available_inventory = Min(self.available_inventory,
                                             request_body.total_inventory)]
Video_from_json(self, request_body) ==
    [self EXCEPT !.title = request_body.title,
                 !.release_date = request_body.release_date,
                 !.total_inventory = request_body.total_inventory,
                 !.genre = request_body.genre]

\* PUT /customers/<customer_id>. A key the body lacks raises KeyError in
\* from_json: the handler answers 400 and the attributes already assigned are
\* never committed.
UpdateCustomer(c, body) ==
    /\ req' = RequestWith("put_customer", c, 0, body)
    /\ IF c \notin DOMAIN customers
       THEN /\ resp' = CustomerNotFound
            /\ customers' = customers
       ELSE IF ~(CustomerFields \subseteq DOMAIN body)
       THEN /\ resp' = InvalidOrMissingData
            /\ customers' = customers
       ELSE /\ customers' = [customers EXCEPT ![c] = Customer_from_json(@, body)]
            /\ resp' = ListResponse(<<get_customer_info(
                          [customer_id |-> c, name |-> customers'[c].name,
                           postal_code |-> customers'[c].postal_code,
                           phone |-> customers'[c].phone])>>)
    /\ UNCHANGED <<videos, rentals, now, pc, session>>

\* PUT /videos/<video_id>
UpdateVideo(v, body) ==
    /\ req' = RequestWith("put_video", 0, v, body)
    /\ IF v \notin DOMAIN videos
       THEN /\ resp' = VideoNotFound
            /\ videos' = videos
       ELSE IF ~(VideoFields \subseteq DOMAIN body)
       THEN /\ resp' = InvalidOrMissingData
            /\ videos' = videos
       ELSE /\ videos' = [videos EXCEPT ![v] = Video_from_json(@, body)]
            /\ resp' = ListResponse(<<get_video_info(
                          [video_id |-> v, title |-> videos'[v].title,
                           release_date |-> videos'[v].release_date,
                           genre |-> videos'[v].genre,
                           total_inventory |-> videos'[v].total_inventory,
                           available_inventory |-> videos'[v].available_inventory])>>)
    /\ UNCHANGED <<customers, rentals, now, pc, session>>

\* payloads of the updates: every field, or only some of them
UpdateCustomerBodies ==
    {[name |-> 1, postal_code |-> 1, phone |-> 1],
     [name |-> 1, phone |-> 1]}
UpdateVideoBodies ==
    {[title |-> 1, release_date |-> 1, genre |-> 1, total_inventory |-> n] : n \in {0, 1}}
      \cup {[total_inventory |-> 0], [title |-> 1, release_date |-> 1, total_inventory |-> 0]}

\* the <customer_id> / <video_id> of the update routes
UpdatedIds == {1}

NextUpdate ==
    \/ \E c \in CustomerIds, v \in VideoIds : CheckOut(c, v)
    \/ \E c \in CustomerIds, v \in VideoIds : CheckIn(c, v)
    \/ \E c \in UpdatedIds, body \in UpdateCustomerBodies : UpdateCustomer(c, body)
    \/ \E v \in UpdatedIds, body \in UpdateVideoBodies : UpdateVideo(v, body)
    \/ \E v \in UpdatedIds : GetRentalHistoryForVideo(v, NoBody)

SpecUpdate == StockedStore /\ [][NextUpdate]_vars

(* -------------------------- claims about updates ---------------------- *)
\* the fields of a row that the payload provides are set to the payload's
\* values and every other field keeps its value
SetsExactly(old, new, body) ==
    \A f \in DOMAIN old :
        new[f] = IF f \in DOMAIN body THEN body[f] ELSE old[f]
OthersUntouched(old, new, id) ==
    /\ DOMAIN new = DOMAIN old
    /\ \A i \in DOMAIN old \ {id} : new[i] = old[i]

\* C16 (as stated): an update of an existing customer or video succeeds
\* whichever fields its payload provides, sets exactly the provided fields and
\* leaves every other field untouched.
C16_UpdateStep(partial) ==
    /\ (/\ IsStep("put_customer")
        /\ req'.customer_id \in DOMAIN customers
        /\ partial \/ CustomerFields \subseteq DOMAIN req'.body)
       => /\ resp'.status = 200
          /\ SetsExactly(customers[req'.customer_id], customers'[req'.customer_id],
                         req'.body)
          /\ OthersUntouched(customers, customers', req'.customer_id)
          /\ UNCHANGED <<videos, rentals>>
    /\ (/\ IsStep("put_video")
        /\ req'.video_id \in DOMAIN videos
        /\ partial \/ VideoFields \subseteq DOMAIN req'.body)
       => /\ resp'.status = 200
          /\ SetsExactly(videos[req'.video_id], videos'[req'.video_id], req'.body)
          /\ OthersUntouched(videos, videos', req'.video_id)
          /\ UNCHANGED <<customers, rentals>>
C16_IncompleteRejected ==
    /\ (/\ IsStep("put_customer")
        /\ req'.customer_id \in DOMAIN customers
        /\ ~(CustomerFields \subseteq DOMAIN req'.body))
       => resp' = InvalidOrMissingData /\ UNCHANGED db
    /\ (/\ IsStep("put_video")
        /\ req'.video_id \in DOMAIN videos
        /\ ~(VideoFields \subseteq DOMAIN req'.body))
       => resp' = InvalidOrMissingData /\ UNCHANGED db
C20_UpdateKeepsAvailable ==
    [][IsStep("put_video")
         => /\ DOMAIN videos' = DOMAIN videos
            /\ \A v \in DOMAIN videos :
                 videos'[v].available_inventory = videos[v].available_inventory]_vars

\* an update has lowered total_inventory below the video's available_inventory
C20_Witness ==
    /\ req.op = "put_video"
    /\ resp.status = 200
    /\ req.video_id \in DOMAIN videos
    /\ videos[req.video_id].total_inventory = req.body.total_inventory
    /\ videos[req.video_id].available_inventory > videos[req.video_id].total_inventory

(* -------------------- claims about the overdue listing ---------------- *)
OpenAndDueBefore(t) ==
    SelectSeq(rentals, LAMBDA r : r.due_date < t /\ r.returned_on_date = Null)

\* C17: handled at time now, the overdue listing has one entry for each rental
\* with due_date < now and returned_on_date null and no other entry; the
\* due_date of a rental is 7 days after its check_out and never changes, the
\* clock never goes back and a returned rental stays returned, so a rental is
\* not listed before 7 days have passed, is listed at every later time while
\* it is open, and is never listed after its check_in.
C17_OverdueStep ==
    /\ (IsStep("get_overdue") /\ Unpaged(req'.body))
       => /\ resp'.status = 200
          /\ LET due == OpenAndDueBefore(now') IN
             SameEntries(resp'.body,
                         [i \in 1 .. Len(due) |->
                            [video_id |-> due[i].video_id,
                             title |-> videos[due[i].video_id].title,
                             customer_id |-> due[i].customer_id,
                             name |-> customers[due[i].customer_id].name,
                             postal_code |-> customers[due[i].customer_id].postal_code,
                             checkout_date |-> due[i].due_date - RentalDays,
                             due_date |-> due[i].due_date]])
          /\ \A i \in DOMAIN resp'.body :
               resp'.body[i].checkout_date + RentalDays < now'
    /\ (IsStep("check_out") /\ resp'.status = 200)
       => /\ Len(rentals') = Len(rentals) + 1
          /\ rentals'[Len(rentals')].due_date = now' + RentalDays
          /\ rentals'[Len(rentals')].returned_on_date = Null
    /\ now' >= now
    /\ \A i \in 1 .. Len(rentals) :
         /\ rentals'[i].due_date = rentals[i].due_date
         /\ rentals[i].returned_on_date # Null
            => rentals'[i].returned_on_date = rentals[i].returned_on_date
C17_OverdueListsOpenPastDue == [][C17_OverdueStep]_vars

\* the listing names the one rental that is open and past its due date, and
\* not the rental that was past its due date when it was checked in
C17_Witness ==
    /\ req.op = "get_overdue"
    /\ resp.status = 200
    /\ Len(resp.body) = 1
    /\ resp.body[1].due_date < now
    /\ \E i \in 1 .. Len(rentals) :
         /\ rentals[i].returned_on_date # Null
         /\ rentals[i].due_date < rentals[i].returned_on_date

(* ------------------ claims about the order of the checks -------------- *)
\* C18: when several preconditions of a check_out or check_in fail at once,
\* the error of the first one is reported and nothing is mutated. check_out:
\* video not found, then no inventory, then customer not found; check_in:
\* customer not found, then video not found, then the rental errors.
C18_CheckOutOrder(missingVideo) ==
    IsStep("check_out") =>
      LET c == req'.customer_id
          v == req'.video_id IN
      /\ (missingVideo /\ v \notin DOMAIN videos)
         => resp' = VideoNotFound /\ UNCHANGED db
      /\ (v \in DOMAIN videos /\ videos[v].available_inventory = 0)
         => resp' = NoInventoryError /\ UNCHANGED db
      /\ (v \in DOMAIN videos /\ videos[v].available_inventory > 0 /\ c \notin DOMAIN customers)
         => resp' = CustomerNotFound /\ UNCHANGED db
C18_CheckInOrder ==
    IsStep("check_in") =>
      LET c == req'.customer_id
          v == req'.video_id IN
      /\ c \notin DOMAIN customers
         => resp' = CustomerNotFound /\ UNCHANGED db
      /\ (c \in DOMAIN customers /\ v \notin DOMAIN videos)
         => resp' = VideoNotFound /\ UNCHANGED db
      /\ (c \in DOMAIN customers /\ v \in DOMAIN videos /\ resp'.status # 200)
         => resp' \in {NoMatchingRecord, AlreadyCheckedInError} /\ UNCHANGED db
C18_FirstFailureReported == [][C18_CheckOutOrder(TRUE) /\ C18_CheckInOrder]_vars
\* the same order for the requests that name an existing video
C18_OrderWhenVideoExists == [][C18_CheckOutOrder(FALSE) /\ C18_CheckInOrder]_vars

(* ------------------- claims about the rental life cycle --------------- *)
\* C19: no request changes the due_date of an existing rental, removes a
\* rental, or changes a returned_on_date that has been set: a rental is
\* created open by a check_out and goes from open to closed only.
C19_RentalStep ==
    /\ Len(rentals') >= Len(rentals)
    /\ \A i \in 1 .. Len(rentals) :
         /\ rentals'[i].due_date = rentals[i].due_date
         /\ rentals'[i].rental_id = rentals[i].rental_id
         /\ rentals[i].returned_on_date # Null
            => rentals'[i].returned_on_date = rentals[i].returned_on_date
    /\ \A i \in Len(rentals) + 1 .. Len(rentals') :
         IsStep("check_out") /\ rentals'[i].returned_on_date = Null
    /\ rentals' # rentals => IsStep("check_out") \/ IsStep("check_in")
C19_RentalsOnlyMoveForward == [][C19_RentalStep]_vars

\* a rental closed at an earlier time, after a later check_in of the same
\* customer and video was refused
C19_Witness ==
    /\ req.op = "check_in"
    /\ resp = AlreadyCheckedInError
    /\ \E i \in 1 .. Len(rentals) :
         /\ rentals[i].customer_id = req.customer_id
         /\ rentals[i].video_id = req.video_id
         /\ rentals[i].returned_on_date # Null
         /\ rentals[i].returned_on_date < now

(* ------------------------ GET /customers/<id> ------------------------- *)
\* GET /customers/<customer_id>
GetSingleCustomer(c) ==
    /\ req' = Request("get_customer", c, 0)
    /\ resp' = IF c \notin DOMAIN customers
               THEN CustomerNotFound
               ELSE ListResponse(<<get_customer_info(CustomerTable[c])>>)
    /\ UNCHANGED <<customers, videos, rentals, now, pc, session>>

NextCustomerInfo ==
    \/ Next
    \/ \E c \in CustomerIds : GetSingleCustomer(c)
    \/ GetAllCustomers(NoBody)

SpecCustomerInfo == Init /\ [][NextCustomerInfo]_vars

(* --------------------- claims about the shown counter ----------------- *)
\* C21: the videos_checked_out_count of a customer object (GET /customers/<id>
\* and GET /customers) equals the customer's maintained counter, which is the
\* videos_checked_out_count of the customer's latest successful check_out or
\* check_in response; a successful check_out answers a count one higher than
\* the counter before it.
C21_ShownStep ==
    /\ (IsStep("get_customer") /\ req'.customer_id \in DOMAIN customers)
       => /\ resp'.status = 200
          /\ resp'.body[1].videos_checked_out_count
               = customers[req'.customer_id].videos_checked_out_count
    /\ IsStep("get_customers")
       => /\ resp'.status = 200
          /\ Len(resp'.body) = Len(customers)
          /\ \A i \in DOMAIN resp'.body :
               resp'.body[i].videos_checked_out_count
                 = customers[resp'.body[i].id].videos_checked_out_count
    /\ ((IsStep("check_out") \/ IsStep("check_in")) /\ resp'.status = 200)
       => resp'.body[1].videos_checked_out_count
            = customers'[req'.customer_id].videos_checked_out_count
    /\ (IsStep("check_out") /\ resp'.status = 200)
       => resp'.body[1].videos_checked_out_count
            = customers[req'.customer_id].videos_checked_out_count + 1
    /\ ~(IsStep("check_out") \/ IsStep("check_in"))
       => \A c \in DOMAIN customers :
            customers'[c].videos_checked_out_count = customers[c].videos_checked_out_count
C21_ShownCountIsCounter == [][C21_ShownStep]_vars

\* the part of C21 about the check_out and check_in responses and the counter
C21_ResponsesCarryCounter ==
    [][/\ ((IsStep("check_out") \/ IsStep("check_in")) /\ resp'.status = 200)
          => resp'.body[1].videos_checked_out_count
               = customers'[req'.customer_id].videos_checked_out_count
       /\ (IsStep("check_out") /\ resp'.status = 200)
          => resp'.body[1].videos_checked_out_count
               = customers[req'.customer_id].videos_checked_out_count + 1
       /\ ~(IsStep("check_out") \/ IsStep("check_in"))
          => \A c \in DOMAIN customers :
               customers'[c].videos_checked_out_count
                 = customers[c].videos_checked_out_count]_vars

(* ------------ GET /customers/<id>/rentals, /videos/<id>/rentals ------- *)
\* the rentals of a customer joined to an existing customer and video; the
\* query has no filter on returned_on_date
CustomerRentals(c) ==
    SelectSeq(rentals, LAMBDA r : /\ r.customer_id \in DOMAIN customers
                                  /\ r.video_id \in DOMAIN videos
                                  /\ r.customer_id = c)
\* the rentals of a video, with .filter(Rental.returned_on_date==None)
VideoRentals(v) ==
    SelectSeq(rentals, LAMBDA r : /\ r.video_id \in DOMAIN videos
                                  /\ r.customer_id \in DOMAIN customers
                                  /\ r.video_id = v
                                  /\ IsOpen(r))

CustomerRentalEntry(rental) ==
    [release_date |-> videos[rental.video_id].release_date,
     title |-> videos[rental.video_id].title,
     due_date |-> rental.due_date]
VideoRentalEntry(rental) ==
    [due_date |-> rental.due_date,
     name |-> customers[rental.customer_id].name,
     phone |-> customers[rental.customer_id].phone,
     postal_code |-> customers[rental.customer_id].postal_code]

\* GET /customers/<customer_id>/rentals
GetRentalsByCustomer(c, args) ==
    /\ req' = RequestWith("get_customer_rentals", c, 0, args)
    /\ IF c \notin DOMAIN customers
       THEN resp' = CustomerNotFound
       ELSE \E out \in get_rentals_within_parameters(
                         CustomerRentals(c), RentalColumns, SortQuery(args), args) :
              resp' = IF out.error
                      THEN ServerError
                      ELSE ListResponse([i \in 1 .. Len(out.rows) |->
                                            CustomerRentalEntry(out.rows[i])])
    /\ UNCHANGED <<customers, videos, rentals, now, pc, session>>

\* GET /videos/<video_id>/rentals
GetRentalsByVideo(v, args) ==
    /\ req' = RequestWith("get_video_rentals", 0, v, args)
    /\ IF v \notin DOMAIN videos
       THEN resp' = VideoNotFound
       ELSE \E out \in get_rentals_within_parameters(
                         VideoRentals(v), RentalColumns, SortQuery(args), args) :
              resp' = IF out.error
                      THEN ServerError
                      ELSE ListResponse([i \in 1 .. Len(out.rows) |->
                                            VideoRentalEntry(out.rows[i])])
    /\ UNCHANGED <<customers, videos, rentals, now, pc, session>>

NextRentals ==
    \/ Next
    \/ \E c \in CustomerIds, args \in RentalQueryArgs : GetRentalsByCustomer(c, args)
    \/ \E v \in VideoIds, args \in RentalQueryArgs : GetRentalsByVideo(v, args)

SpecRentals == Init /\ [][NextRentals]_vars

(* -------------------- claims about the rentals listings --------------- *)
OpenOfCustomerRows(c) ==
    SelectSeq(rentals, LAMBDA r : r.customer_id = c /\ r.returned_on_date = Null)
OpenOfVideoRows(v) ==
    SelectSeq(rentals, LAMBDA r : r.video_id = v /\ r.returned_on_date = Null)

C22_VideoListing ==
    (/\ IsStep("get_video_rentals")
     /\ req'.video_id \in DOMAIN videos
     /\ Unpaged(req'.body))
    => /\ resp'.status = 200
       /\ LET open == OpenOfVideoRows(req'.video_id) IN
          SameEntries(resp'.body,
                      [i \in 1 .. Len(open) |->
                         [due_date |-> open[i].due_date,
                          name |-> customers[open[i].customer_id].name,
                          phone |-> customers[open[i].customer_id].phone,
                          postal_code |-> customers[open[i].customer_id].postal_code]])
C22_CustomerListing ==
    (/\ IsStep("get_customer_rentals")
     /\ req'.customer_id \in DOMAIN customers
     /\ Unpaged(req'.body))
    => /\ resp'.status = 200
       /\ LET open == OpenOfCustomerRows(req'.customer_id) IN
          SameEntries(resp'.body,
                      [i \in 1 .. Len(open) |->
                         [release_date |-> videos[open[i].video_id].release_date,
                          title |-> videos[open[i].video_id].title,
                          due_date |-> open[i].due_date]])

\* C22: GET /customers/C/rentals and GET /videos/V/rentals each have one entry
\* for each open rental of the customer (of the video) and no entry for a
\* rental that has been checked in, so a rental of C for V is in the one
\* exactly when it is in the other.
C22_ListingsShowOpenRentals == [][C22_CustomerListing /\ C22_VideoListing]_vars

\* the video half of C22
C22_VideoListingShowsOpenRentals == [][C22_VideoListing]_vars
====
